---- MODULE Spec2Model ----
(***************************************************************************)
(* A model of onionbalance/util.py: the v2 descriptor-ID derivation        *)
(* (time period, seconds valid, secret-id-part, base32 address codec),     *)
(* PKCS#1 padding and the key_decrypt_prompt retry loop.                   *)
(*                                                                         *)
(* Byte strings are sequences of integers 0..255; text is a sequence of    *)
(* ASCII codes.  Python floats that the code produces are multiples of     *)
(* 0.5 far below 2^53, so they are exact; they are modelled in half units  *)
(* (the integer 2*x stands for the float x).                               *)
(***************************************************************************)
EXTENDS Integers, Sequences, FiniteSets

VARIABLES
    pc,             \* where the running operation stands
    \* the clock and the time functions
    now,            \* the timestamp handed to the time functions
    permanent_id,   \* the service's PermanentID (10 bytes)
    time_period,    \* last result of get_time_period(now, permanent_id)
    seconds_valid,  \* last result of get_seconds_valid(now, permanent_id)
    \* calc_onion_address / calc_descriptor_id_b32
    service_key,    \* the key handed to calc_onion_address
    onion_address,  \* the address string handed to calc_descriptor_id_b32
    replica,        \* its replica argument
    b32_args,       \* its deviation and descriptor_cookie arguments
    decoded,        \* its local permanent_id: what b32decode returned or raised
    descriptor,     \* what calc_descriptor_id_b32 returned or raised
    \* calc_secret_id_part
    sid_args,       \* its arguments: time period, cookie, replica
    sid_result,     \* what it returned or raised
    \* add_pkcs1_padding
    message,        \* its argument
    padded,         \* what it returned or raised
    \* key_decrypt_prompt
    pem_key,        \* the bytes read from key_file
    retries,        \* the retries argument
    attempt,        \* the loop variable of "for retries in range(0, retries)"
    key_passphrase, \* the passphrase last entered (None at first)
    prompts,        \* getpass.getpass calls so far
    imports,        \* RSA.importKey calls so far
    last_import,    \* what the last RSA.importKey call returned or raised
    route,          \* the branch taken on the leading tag
    outcome         \* what key_decrypt_prompt returned or raised

timeVars == <<now, permanent_id, time_period, seconds_valid>>
addrVars == <<service_key, onion_address, replica, b32_args, decoded, descriptor>>
sidVars == <<sid_args, sid_result>>
padVars == <<message, padded>>
keyVars == <<pem_key, retries, attempt, key_passphrase, prompts, imports,
             last_import, route, outcome>>
vars == <<pc, timeVars, addrVars, sidVars, padVars, keyVars>>

(***************************************************************************)
(* Program constants.                                                      *)
(***************************************************************************)
SecondsPerDay == 86400
PhaseDivisor == 256
PermanentIdLen == 10
PaddedLen == 128
PaddingBudget == 125

(***************************************************************************)
(* Bounds of the model.                                                    *)
(***************************************************************************)
MaxPeriod == 7      \* lookups go on until the clock reaches this many days
MaxEarly == 2       \* a caller wakes up 0..MaxEarly seconds before a rotation
MaxAddrBytes == 12  \* foreign addresses encode 0..MaxAddrBytes bytes
MaxReplica == 257   \* replica arguments tried: 0..MaxReplica
MaxMsgLen == 130    \* messages padded: 0..MaxMsgLen bytes
MaxRetries == 3     \* retries arguments tried: -1..MaxRetries

(***************************************************************************)
(* get_time_period / get_seconds_valid (util.py 62-75).                    *)
(***************************************************************************)
\* Python's int() on a float: truncation toward zero.  n/d given as integers.
IntTrunc(n, d) == IF n >= 0 THEN n \div d ELSE -((-n) \div d)

\* struct.unpack('B', permanent_id[0:1])[0]: the first byte, unsigned.
permanent_id_byte(pid) == pid[1]

\* int(time) + permanent_id_byte * 86400 / 256, in half units:
\* 2 * (t + b * 337.5) = 2*t + b * (2 * 86400 / 256).
Combined2(time, pid) ==
    2 * time + permanent_id_byte(pid) * ((2 * SecondsPerDay) \div PhaseDivisor)

\* Mutant: the float remainder rounded to nearest (half up) instead of truncated.
get_seconds_valid_round(time, pid) ==
    SecondsPerDay - (((Combined2(time, pid) % (2 * SecondsPerDay)) + 1) \div 2)

\* Mutant: the phase offset forgotten, the remainder taken of the bare timestamp.
get_seconds_valid_nophase(time, pid) ==
    SecondsPerDay - (time % SecondsPerDay)

\* 86400 - int((int(time) + byte * 86400 / 256) % 86400)
get_seconds_valid(time, pid) ==
    SecondsPerDay - ((Combined2(time, pid) % (2 * SecondsPerDay)) \div 2)

\* Mutant: '%' typed for '/'.
get_time_period_mod(time, pid) ==
    (Combined2(time, pid) % (2 * SecondsPerDay)) \div 2

\* int((int(time) + byte * 86400 / 256) / 86400)
get_time_period(time, pid) ==
    IntTrunc(Combined2(time, pid), 2 * SecondsPerDay)

(***************************************************************************)
(* Text helpers: bytes.lower(), bytes.upper() on ASCII codes.              *)
(***************************************************************************)
Take(s, n) == SubSeq(s, 1, n)
Repeat(x, n) == [i \in 1..n |-> x]
AsciiLower(c) == IF c \in 65..90 THEN c + 32 ELSE c
AsciiUpper(c) == IF c \in 97..122 THEN c - 32 ELSE c
LowerAll(s) == [i \in 1..Len(s) |-> AsciiLower(s[i])]
UpperAll(s) == [i \in 1..Len(s) |-> AsciiUpper(s[i])]
PadChar == 61   \* "="

(***************************************************************************)
(* base64.b32encode / base64.b32decode as called at util.py 55, 98, 121.   *)
(* A 5-byte group is a 40-bit number; its eight 5-bit digits (and, back,   *)
(* its five bytes) are read through 16-bit (15-bit) windows.               *)
(***************************************************************************)
\* The RFC 4648 alphabet: A-Z, 2-7.
B32Char(v) == IF v < 26 THEN 65 + v ELSE 50 + (v - 26)
\* Its inverse; -1 for a character outside the alphabet (KeyError).
B32Rev(c) == IF c \in 65..90 THEN c - 65 ELSE IF c \in 50..55 THEN c - 50 + 26 ELSE -1

ByteAt(s, k) == IF k <= Len(s) THEN s[k] ELSE 0

\* Digit j (0-based) of the zero-padded byte string s.
B32DigitOf(s, j) ==
    LET bit == 5 * j
        k == (bit \div 8) + 1
        off == bit % 8
        window == ByteAt(s, k) * 256 + ByteAt(s, k + 1)
    IN  (window \div (2 ^ (16 - off - 5))) % 32

\* Characters replaced by "=" for a partial last group: 1: 6, 2: 4, 3: 3, 4: 1.
B32PadCount(leftover) ==
    CASE leftover = 0 -> 0
      [] leftover = 1 -> 6
      [] leftover = 2 -> 4
      [] leftover = 3 -> 3
      [] leftover = 4 -> 1

b32encode(s) ==
    LET leftover == Len(s) % 5
        groups == (Len(s) + 4) \div 5
        n == 8 * groups
        pad == B32PadCount(leftover)
    IN  [j \in 1..n |-> IF j > n - pad THEN PadChar ELSE B32Char(B32DigitOf(s, j - 1))]

\* bytes.rstrip(b'='): the length left.
RECURSIVE RStripLen(_)
RStripLen(s) ==
    IF Len(s) > 0 /\ s[Len(s)] = PadChar THEN RStripLen(Take(s, Len(s) - 1)) ELSE Len(s)

DigitAt(d, k) == IF k <= Len(d) THEN d[k] ELSE 0

\* Byte i (0-based) of the digit string d, missing digits read as 0.
B32ByteOf(d, i) ==
    LET bit == 8 * i
        k == (bit \div 5) + 1
        off == bit % 5
        window == DigitAt(d, k) * 1024 + DigitAt(d, k + 1) * 32 + DigitAt(d, k + 2)
    IN  (window \div (2 ^ (15 - off - 8))) % 256

\* Bytes kept of a last group written with padchars "=": (43 - 5*padchars) // 8.
B32Leftover(padchars) == (43 - 5 * padchars) \div 8

BinasciiError == [kind |-> "error", error |-> "binascii.Error"]
Ok(v) == [kind |-> "ok", value |-> v]
Raise(e) == [kind |-> "error", error |-> e]
Idle == [kind |-> "idle"]
\* A str with a character above 7F: "string argument should contain only
\* ASCII characters".
IsAscii(s) == \A k \in 1..Len(s) : s[k] < 128
NonAsciiError == Raise("ValueError")

\* Mutant: casefold ignored, lower-case letters refused.
b32decode_nocasefold(s, casefold) ==
    LET l == Len(s)
        t == Take(s, RStripLen(s))
        padchars == l - Len(t)
        d == [i \in 1..Len(t) |-> B32Rev(t[i])]
        full == 5 * ((Len(t) + 7) \div 8)
        nbytes == IF padchars > 0 /\ full > 0
                  THEN full - 5 + B32Leftover(padchars) ELSE full
    IN  IF ~IsAscii(s) THEN NonAsciiError
        ELSE IF l % 8 # 0 THEN BinasciiError
        ELSE IF \E k \in 1..Len(d) : d[k] = -1 THEN BinasciiError
        ELSE IF padchars \notin {0, 1, 3, 4, 6} THEN BinasciiError
        ELSE Ok([i \in 1..nbytes |-> B32ByteOf(d, i - 1)])

\* The argument is a str, as calc_onion_address returns and callers pass: it
\* is first encoded as ASCII, which fails with a plain ValueError.
b32decode(s, casefold) ==
    LET l == Len(s)
        u == IF casefold THEN UpperAll(s) ELSE s
        t == Take(u, RStripLen(u))
        padchars == l - Len(t)
        d == [i \in 1..Len(t) |-> B32Rev(t[i])]
        full == 5 * ((Len(t) + 7) \div 8)
        nbytes == IF padchars > 0 /\ full > 0
                  THEN full - 5 + B32Leftover(padchars) ELSE full
    IN  IF ~IsAscii(s) THEN NonAsciiError                     \* s.encode('ascii')
        ELSE IF l % 8 # 0 THEN BinasciiError                  \* 'Incorrect padding'
        ELSE IF \E k \in 1..Len(d) : d[k] = -1 THEN BinasciiError   \* 'Non-base32 digit found'
        ELSE IF padchars \notin {0, 1, 3, 4, 6} THEN BinasciiError  \* 'Incorrect padding'
        ELSE Ok([i \in 1..nbytes |-> B32ByteOf(d, i - 1)])

\* base32_encode_str (util.py 117-121): b32encode(byte_str).lower().decode('utf-8')
base32_encode_str(byte_str) == LowerAll(b32encode(byte_str))

(***************************************************************************)
(* Keys and calc_onion_address (util.py 32-55).                            *)
(*                                                                         *)
(* An RSA key is held by the SHA-1 digest of its ASN.1 sequence (n, e),    *)
(* the one thing calc_onion_address reads of it.  An Ed25519 key is held   *)
(* by its 32 secret bytes; the library's public key derivation and          *)
(* SHA3-256 are tables of their true values on the keys of the model.      *)
(***************************************************************************)
\* Ed25519 secrets: bytes 0..31, bytes 101..132, the letters "A".."`".
CountingScalar == [i \in 1..32 |-> i - 1]
Scalar == [i \in 1..32 |-> 100 + i]
TextScalar == [i \in 1..32 |-> 64 + i]

\* Ed25519PrivateKey.from_private_bytes: a key from exactly 32 bytes,
\* ValueError otherwise.
from_private_bytes(data) ==
    IF Len(data) = 32 THEN Ok([type |-> "Ed25519", secret |-> data])
    ELSE Raise("ValueError: An Ed25519 private key is 32 bytes long")

\* isinstance(key, Ed25519PrivateKey)
IsEd25519PrivateKey(key) == key.type = "Ed25519"

\* key.public_key().public_bytes(Encoding.Raw, PublicFormat.Raw)
public_bytes(key) ==
    CASE key.secret = CountingScalar ->
           <<3, 161, 7, 191, 243, 206, 16, 190, 29, 112, 221, 24, 231, 75, 192, 153,
             103, 228, 214, 48, 155, 165, 13, 95, 29, 220, 134, 100, 18, 85, 49, 184>>
      [] key.secret = Scalar ->
           <<218, 41, 233, 91, 2, 224, 15, 250, 21, 100, 87, 117, 251, 29, 43, 162,
             34, 161, 148, 51, 149, 238, 160, 107, 148, 226, 192, 87, 183, 190, 105, 208>>
      [] key.secret = TextScalar ->
           <<173, 193, 64, 17, 248, 45, 28, 86, 217, 86, 170, 79, 157, 115, 216, 133,
             131, 97, 166, 6, 4, 133, 37, 224, 208, 140, 99, 141, 199, 93, 216, 199>>

\* b".onion checksum"
OnionChecksumLabel == <<46, 111, 110, 105, 111, 110, 32, 99, 104, 101, 99, 107, 115, 117, 109>>
\* b'\x03'
OnionVersion == <<3>>

\* hashlib.sha3_256(data).digest(), on label + public key + version.
sha3_256(data) ==
    CASE data = OnionChecksumLabel \o public_bytes([secret |-> CountingScalar]) \o OnionVersion ->
           <<24, 16, 147, 231, 65, 207, 184, 23, 219, 114, 6, 18, 173, 8, 174, 62,
             117, 149, 112, 125, 125, 24, 18, 253, 71, 118, 1, 234, 91, 115, 56, 138>>
      [] data = OnionChecksumLabel \o public_bytes([secret |-> Scalar]) \o OnionVersion ->
           <<66, 20, 54, 58, 69, 105, 51, 1, 114, 226, 136, 39, 196, 111, 126, 198,
             218, 226, 157, 72, 40, 78, 249, 132, 220, 131, 29, 218, 75, 177, 91, 95>>
      [] data = OnionChecksumLabel \o public_bytes([secret |-> TextScalar]) \o OnionVersion ->
           <<155, 8, 9, 64, 254, 217, 78, 161, 49, 34, 94, 242, 148, 181, 213, 71,
             116, 208, 1, 157, 199, 206, 181, 34, 177, 98, 104, 185, 191, 113, 5, 186>>

\* calc_key_digest: hashlib.sha1(get_asn1_sequence(rsa_key)).digest()
calc_key_digest(rsa_key) == rsa_key.key_digest

\* calc_permanent_id: calc_key_digest(rsa_key)[:10]
calc_permanent_id(rsa_key) == Take(calc_key_digest(rsa_key), PermanentIdLen)

calc_onion_address(key) ==
    IF IsEd25519PrivateKey(key)
    THEN LET pub_key == public_bytes(key)
             checksum == Take(sha3_256(OnionChecksumLabel \o pub_key \o OnionVersion), 2)
             address == base32_encode_str(pub_key \o checksum \o OnionVersion)
         IN  address
    ELSE LowerAll(b32encode(calc_permanent_id(key)))

(***************************************************************************)
(* hashlib.sha1: a digest is kept as the byte string it was computed over  *)
(* (an injective stand-in for the 20 bytes).                               *)
(***************************************************************************)
SHA1(bytes) == [sha1 |-> bytes]

(***************************************************************************)
(* calc_secret_id_part (util.py 78-87).  A time period is held as its two  *)
(* 16-bit halves <<hi, lo>> (value hi * 65536 + lo), so that the whole     *)
(* range 0..2^32-1 of struct's 'I' is covered.                             *)
(***************************************************************************)
\* struct.pack('>I', time_period)[:4]
pack_be_u32(tp) == <<tp[1] \div 256, tp[1] % 256, tp[2] \div 256, tp[2] % 256>>

\* '{0:02X}'.format(replica): upper-case hex digits, zero-filled to width 2;
\* a negative number is "-" and the digits of its magnitude, the sign counted
\* in the width.
RECURSIVE HexDigits(_)
HexDigits(n) == IF n < 16 THEN <<n>> ELSE HexDigits(n \div 16) \o <<n % 16>>
HexChar(d) == IF d < 10 THEN 48 + d ELSE 65 + (d - 10)
format_02X(n) ==
    LET values == HexDigits(IF n < 0 THEN -n ELSE n)
        digits == [i \in 1..Len(values) |-> HexChar(values[i])]
    IN  IF n < 0 THEN <<45>> \o digits
        ELSE IF Len(digits) < 2 THEN <<48>> \o digits ELSE digits

\* binascii.unhexlify: pairs of hex digits to bytes; odd length is an error.
HexVal(c) ==
    IF c \in 48..57 THEN c - 48
    ELSE IF c \in 65..70 THEN c - 55
    ELSE IF c \in 97..102 THEN c - 87
    ELSE -1
unhexlify(str) ==
    IF Len(str) % 2 # 0 THEN BinasciiError
    ELSE IF \E k \in 1..Len(str) : HexVal(str[k]) = -1 THEN BinasciiError
    ELSE Ok([i \in 1..(Len(str) \div 2) |-> 16 * HexVal(str[2 * i - 1]) + HexVal(str[2 * i])])

\* A cookie argument: None, or a byte string.
NoCookie == [present |-> FALSE, bytes |-> <<>>]
Cookie(bytes) == [present |-> TRUE, bytes |-> bytes]
\* "if descriptor_cookie:": None and b'' are false.
Truthy(cookie) == cookie.present /\ Len(cookie.bytes) > 0

\* Mutant: the cookie hashed behind a one-byte length prefix.
SecretIdInput_prefixed(tp, descriptor_cookie, replica_byte) ==
    pack_be_u32(tp)
        \o (IF Truthy(descriptor_cookie)
            THEN <<Len(descriptor_cookie.bytes)>> \o descriptor_cookie.bytes ELSE <<>>)
        \o replica_byte

\* The three update() calls: what the SHA-1 object has been fed.
SecretIdInput(tp, descriptor_cookie, replica_byte) ==
    pack_be_u32(tp)
        \o (IF Truthy(descriptor_cookie) THEN descriptor_cookie.bytes ELSE <<>>)
        \o replica_byte

calc_secret_id_part(tp, descriptor_cookie, rep) ==
    LET replica_byte == unhexlify(format_02X(rep))
    IN  IF replica_byte.kind = "error" THEN replica_byte
        ELSE Ok(SHA1(SecretIdInput(tp, descriptor_cookie, replica_byte.value)))

(***************************************************************************)
(* calc_descriptor_id / calc_descriptor_id_b32 (util.py 58-59, 90-104).    *)
(***************************************************************************)
\* hashlib.sha1(permanent_id + secret_id_part).digest()
calc_descriptor_id(pid, secret_id_part) ==
    SHA1([permanent_id |-> pid, secret_id_part |-> secret_id_part])

\* The descriptor ID as returned: base64.b32encode(digest).decode().lower().
DescriptorIdB32(digest) == [b32lower |-> digest]

\* An int time period as the halves struct packs; struct.error below zero
\* and from 2^32 on.
U32Halves(n) == <<n \div 65536, n % 65536>>
FitsU32(n) == n >= 0 /\ n \div 65536 <= 65535

\* The rest of calc_descriptor_id_b32, from the decoded permanent_id on.
DescriptorIdFrom(pid, time, rep, deviation, descriptor_cookie) ==
    IF Len(pid) = 0 THEN Raise("struct.error")                 \* unpack('B', b'')
    ELSE LET tp == get_time_period(time, pid) + deviation
         IN  IF ~FitsU32(tp) THEN Raise("struct.error")        \* pack('>I', out of range)
             ELSE LET sid == calc_secret_id_part(U32Halves(tp), descriptor_cookie, rep)
                  IN  IF sid.kind = "error" THEN sid
                      ELSE Ok(DescriptorIdB32(calc_descriptor_id(pid, sid.value)))

\* Mutant: a decoded permanent_id of another length than 10 is refused.
calc_descriptor_id_b32_checked(address, time, rep, deviation, descriptor_cookie) ==
    LET decoded_id == b32decode(address, TRUE)
    IN  IF decoded_id.kind = "error" THEN decoded_id
        ELSE IF Len(decoded_id.value) # PermanentIdLen THEN BinasciiError
        ELSE DescriptorIdFrom(decoded_id.value, time, rep, deviation, descriptor_cookie)

\* permanent_id = base64.b32decode(onion_address, 1), then the derivation; the
\* decoded length is not looked at.
calc_descriptor_id_b32(address, time, rep, deviation, descriptor_cookie) ==
    LET decoded_id == b32decode(address, TRUE)
    IN  IF decoded_id.kind = "error" THEN decoded_id
        ELSE DescriptorIdFrom(decoded_id.value, time, rep, deviation, descriptor_cookie)

(***************************************************************************)
(* add_pkcs1_padding (util.py 21-29).                                      *)
(***************************************************************************)
\* b'\xFF' * n: empty for n <= 0.
BytesTimes(b, n) == IF n <= 0 THEN <<>> ELSE Repeat(b, n)

\* Mutant: the assertion left out.
add_pkcs1_padding_noassert(msg) ==
    Ok(<<0, 1>> \o BytesTimes(255, PaddingBudget - Len(msg)) \o <<0>> \o msg)

add_pkcs1_padding(msg) ==
    LET typeinfo == <<0, 1>>
        separator == <<0>>
        padding == BytesTimes(255, PaddingBudget - Len(msg))
        padded_message == typeinfo \o padding \o separator \o msg
    IN  IF Len(padded_message) = PaddedLen THEN Ok(padded_message)
        ELSE Raise("AssertionError")

(***************************************************************************)
(* Values of the variables an operation does not use.                      *)
(***************************************************************************)
Bytes == 0..255
IdTail == <<17, 34, 51, 68, 85, 102, 119, 136, 153>>
PermanentIdOf(b) == <<b>> \o IdTail

TimeIdle ==
    /\ now = 5 * SecondsPerDay
    /\ permanent_id = PermanentIdOf(0)
    /\ time_period = 0
    /\ seconds_valid = 0
AddrIdle ==
    /\ service_key = Idle
    /\ onion_address = <<>>
    /\ replica = 0
    /\ b32_args = [deviation |-> 0, descriptor_cookie |-> NoCookie]
    /\ decoded = Idle
    /\ descriptor = Idle
SidIdle == sid_args = Idle /\ sid_result = Idle
PadIdle == message = <<>> /\ padded = Idle
KeyIdle ==
    /\ pem_key = <<>>
    /\ retries = 0
    /\ attempt = 0
    /\ key_passphrase = "None"
    /\ prompts = 0
    /\ imports = 0
    /\ last_import = Idle
    /\ route = "none"
    /\ outcome = Idle

(***************************************************************************)
(* The clock machine: a caller looks the period up, then sleeps until (or  *)
(* shortly before) the rotation get_seconds_valid announces, or for a      *)
(* fixed interval, and looks it up again.                                  *)
(***************************************************************************)
StartTimes == {-SecondsPerDay - 1, -1, 0, 5 * SecondsPerDay}
RotationStartTimes == {5 * SecondsPerDay, 5 * SecondsPerDay + 12345}
RotationPhases == {0, 1, 2, 3, 31, 32, 63, 64, 95, 96, 127, 128, 129, 160, 191, 192, 223, 224, 254, 255}
SleepSteps == {SecondsPerDay \div 2}

Lookup(t) ==
    /\ now' = t
    /\ time_period' = get_time_period(t, permanent_id)
    /\ seconds_valid' = get_seconds_valid(t, permanent_id)
    /\ UNCHANGED <<pc, permanent_id, addrVars, sidVars, padVars, keyVars>>

InitTimeAt(starts, phases) ==
    /\ pc = "clock"
    /\ now \in starts
    /\ permanent_id \in {PermanentIdOf(b) : b \in phases}
    /\ time_period = get_time_period(now, permanent_id)
    /\ seconds_valid = get_seconds_valid(now, permanent_id)
    /\ AddrIdle /\ SidIdle /\ PadIdle /\ KeyIdle

InitTime == InitTimeAt(StartTimes, Bytes)
InitRotation == InitTimeAt(RotationStartTimes, RotationPhases)

\* Sleep until k seconds before the announced rotation, then look up again.
WaitRotation ==
    /\ now < MaxPeriod * SecondsPerDay
    /\ \E k \in 0..MaxEarly :
          /\ k < seconds_valid
          /\ Lookup(now + seconds_valid - k)

\* Sleep a fixed interval, then look up again.
Sleep ==
    /\ now < MaxPeriod * SecondsPerDay
    /\ \E d \in SleepSteps : Lookup(now + d)

NextTime == WaitRotation \/ Sleep

SpecTime == InitTime /\ [][NextTime]_vars
SpecRotation == InitRotation /\ [][NextTime]_vars

Phase == permanent_id_byte(permanent_id)
\* (int(time) + byte * 86400 / 256) % 86400, exact, in half units.
ExactRemainder2 == Combined2(now, permanent_id) % (2 * SecondsPerDay)

\* C1 (as stated): for t >= 0, get_seconds_valid(t, p) plus the exact value of
\* (t + phase*86400/256) mod 86400 is exactly 86400 (here: both sides doubled).
C1_ExactSumIsDay ==
    now >= 0 => 2 * seconds_valid + ExactRemainder2 = 2 * SecondsPerDay

\* C1 (amended): for t >= 0, get_seconds_valid(t, p) plus the remainder
\* truncated to whole seconds is 86400; with the exact remainder the sum is
\* 86400 for an even phase and 86400.5 for an odd one.
C1_TruncatedSumIsDay ==
    now >= 0 =>
        /\ seconds_valid + (ExactRemainder2 \div 2) = SecondsPerDay
        /\ 2 * seconds_valid + ExactRemainder2 = 2 * SecondsPerDay + (Phase % 2)

C1_Witness ==
    /\ now > 5 * SecondsPerDay
    /\ Phase = 255
    /\ ExactRemainder2 % 2 = 1
    /\ seconds_valid = 1

\* C2: for a fixed PermanentID, whenever the clock does not go back the time
\* period does not decrease.
C2_PeriodMonotone ==
    [][now' >= now => time_period' >= time_period]_vars

C2_Witness ==
    /\ now > 0
    /\ now < SecondsPerDay
    /\ Phase = 255
    /\ time_period = 1

\* C10: for t >= 0, v = get_seconds_valid(t, p) is in 1..86400, the time
\* period is unchanged at t+s for every 0 <= s < v, and is one more at t+v.
C10_SecondsUntilRotation ==
    now >= 0 =>
        /\ seconds_valid \in 1..SecondsPerDay
        /\ \A s \in 0..(seconds_valid - 1) :
              get_time_period(now + s, permanent_id) = time_period
        /\ get_time_period(now + seconds_valid, permanent_id) = time_period + 1

C10_Witness ==
    /\ now > 5 * SecondsPerDay
    /\ Phase = 255
    /\ time_period = 6
    /\ seconds_valid = SecondsPerDay

(***************************************************************************)
(* Addresses: a service's address is derived from its PermanentID, or the  *)
(* caller supplies an address string of its own; calc_descriptor_id_b32    *)
(* is then called on it.                                                   *)
(***************************************************************************)
\* PermanentIDs: every byte value at every position, the other bytes a fill.
IdFills == {165}
IdSamples ==
    {[k \in 1..PermanentIdLen |-> IF k = i THEN b ELSE f] :
        i \in 1..PermanentIdLen, b \in Bytes, f \in IdFills}

ReplaceAt(s, i, c) == [k \in 1..Len(s) |-> IF k = i THEN c ELSE s[k]]

\* The service's keys: RSA keys whose digest starts with each PermanentID,
\* and the Ed25519 keys from_private_bytes builds.
DigestTail == [i \in 1..10 |-> 200 + i]
RsaServiceKeys == {[type |-> "RSA", key_digest |-> p \o DigestTail] : p \in IdSamples}
Ed25519ServiceKeys == {from_private_bytes(s).value : s \in {CountingScalar, Scalar}}

\* The bytes a key's address encodes first.
AddressSeed(key) ==
    IF IsEd25519PrivateKey(key) THEN public_bytes(key) ELSE calc_permanent_id(key)

\* Address strings that are not the service's own lower-case address:
\* encodings of shorter and longer byte strings, the upper-case spelling,
\* and damaged copies (a character outside the alphabet, "=" inside, a
\* character that is not ASCII, a missing last character, the last 1..8
\* characters written over with "=").
ForeignAddresses(key) ==
    LET own == calc_onion_address(key)
        seed == AddressSeed(key)
    IN  {base32_encode_str(Take(seed \o seed, n)) : n \in (0..MaxAddrBytes) \ {PermanentIdLen}}
        \cup {UpperAll(own)}
        \cup {ReplaceAt(own, i, c) : i \in {1, 8, Len(own)}, c \in {49, PadChar, 233}}
        \cup {Take(own, Len(own) - 1)}
        \cup {Take(own, Len(own) - n) \o Repeat(PadChar, n) : n \in 1..8}

\* The default call: deviation 0, no cookie, on every key.
InitAddr ==
    /\ pc = "start"
    /\ TimeIdle
    /\ service_key \in RsaServiceKeys \cup Ed25519ServiceKeys
    /\ onion_address = <<>>
    /\ replica \in 0..1
    /\ b32_args = [deviation |-> 0, descriptor_cookie |-> NoCookie]
    /\ decoded = Idle
    /\ descriptor = Idle
    /\ SidIdle /\ PadIdle /\ KeyIdle

\* The call on its whole argument list, on a few keys: replicas inside and
\* outside a byte (negative; three and four hex digits), a time at the epoch
\* and one days after it, deviations to either side, with and without cookie.
DescriptorKeys ==
    {[type |-> "RSA", key_digest |-> PermanentIdOf(b) \o DigestTail] : b \in {0, 255}}
        \cup Ed25519ServiceKeys
ReplicaSamples == {-1, 0, 1, 255, 256, MaxReplica, 4095, 4096}
DeviationSamples == {-1, 0, 1}
CallTimes == {0, 5 * SecondsPerDay}
CallCookies == {NoCookie, Cookie([i \in 1..16 |-> 160 + i])}

InitDescriptor ==
    /\ pc = "start"
    /\ now \in CallTimes
    /\ permanent_id = PermanentIdOf(0)
    /\ time_period = 0
    /\ seconds_valid = 0
    /\ service_key \in DescriptorKeys
    /\ onion_address = <<>>
    /\ replica \in ReplicaSamples
    /\ b32_args \in [deviation : DeviationSamples, descriptor_cookie : CallCookies]
    /\ decoded = Idle
    /\ descriptor = Idle
    /\ SidIdle /\ PadIdle /\ KeyIdle

CalcOnionAddress ==
    /\ pc = "start"
    /\ onion_address' = calc_onion_address(service_key)
    /\ pc' = "have_address"
    /\ UNCHANGED <<timeVars, service_key, replica, b32_args, decoded, descriptor,
                   sidVars, padVars, keyVars>>

SupplyAddress ==
    /\ pc = "start"
    /\ onion_address' \in ForeignAddresses(service_key)
    /\ pc' = "have_address"
    /\ UNCHANGED <<timeVars, service_key, replica, b32_args, decoded, descriptor,
                   sidVars, padVars, keyVars>>

CalcDescriptorIdB32 ==
    /\ pc = "have_address"
    /\ decoded' = b32decode(onion_address, TRUE)
    /\ descriptor' = calc_descriptor_id_b32(onion_address, now, replica,
                                            b32_args.deviation, b32_args.descriptor_cookie)
    /\ pc' = "called"
    /\ UNCHANGED <<timeVars, service_key, onion_address, replica, b32_args,
                   sidVars, padVars, keyVars>>

NextAddr == CalcOnionAddress \/ SupplyAddress \/ CalcDescriptorIdB32

SpecAddr == InitAddr /\ [][NextAddr]_vars
SpecDescriptor == InitDescriptor /\ [][NextAddr]_vars

\* The service's own address is the one onion_address holds.
OwnAddress == onion_address = calc_onion_address(service_key)
\* The service holds an RSA key: its address is the v2 address of a PermanentID.
LegacyKey == ~IsEd25519PrivateKey(service_key)
IsLowerB32(c) == c \in 97..122 \/ c \in 50..55

\* C3: decoding (case-insensitively, as calc_descriptor_id_b32 does) the
\* 16-character lower-case v2 address of a 10-byte PermanentID p gives p back.
C3_DecodeEncodeRoundTrip ==
    (pc = "called" /\ LegacyKey /\ OwnAddress) =>
        /\ Len(calc_permanent_id(service_key)) = PermanentIdLen
        /\ Len(onion_address) = 16
        /\ \A k \in 1..Len(onion_address) : IsLowerB32(onion_address[k])
        /\ decoded = Ok(calc_permanent_id(service_key))

C3_Witness ==
    /\ pc = "called"
    /\ LegacyKey
    /\ OwnAddress
    /\ calc_permanent_id(service_key)[1] = 255
    /\ calc_permanent_id(service_key)[PermanentIdLen] = 165
    /\ decoded.kind = "ok"

DecodesToTenBytes == decoded.kind = "ok" /\ Len(decoded.value) = PermanentIdLen

\* C5 (as stated): calc_descriptor_id_b32 fails with InvalidEncodingError, and
\* returns no descriptor ID, for every address that does not decode to exactly
\* 10 bytes.
C5_FailsUnlessTenBytes ==
    (pc = "called" /\ ~DecodesToTenBytes) => descriptor = BinasciiError

\* Well-formed base32, stated on the string: a multiple of 8 characters, a
\* run of 0, 1, 3, 4 or 6 "=" at the end, before it only letters of either
\* case and the digits 2..7.
DataChars(s) == RStripLen(s)
WellFormedB32(s) ==
    /\ Len(s) % 8 = 0
    /\ (Len(s) - DataChars(s)) \in {0, 1, 3, 4, 6}
    /\ \A k \in 1..DataChars(s) :
          s[k] \in 65..90 \/ s[k] \in 97..122 \/ s[k] \in 50..55

\* The time period the call packs: floor of (time + phase * 337.5) / 86400 for
\* time >= 0, the phase being the first decoded byte, plus the deviation.
PackedPeriod ==
    ((2 * now + decoded.value[1] * 675) \div (2 * SecondsPerDay)) + b32_args.deviation

\* C5 (amended): calc_descriptor_id_b32 never looks at the decoded length.
\* For an address given as a str, a time >= 0, integer deviation and replica,
\* its outcome is, in this order:
\*   a character that is not ASCII: ValueError (not InvalidEncodingError);
\*   else not well-formed base32: InvalidEncodingError (binascii.Error);
\*   else the address decodes to (5 * data characters) div 8 bytes, and
\*     no byte, or period + deviation outside 0..2^32-1: struct.error;
\*     else replica negative or in 256..4095: binascii.Error (from unhexlify);
\*     else (replica in 0..255 or 4096..65535): a descriptor ID is returned,
\*       whether 10 bytes were decoded or not.
C5_OutcomeIgnoresDecodedLength ==
    (pc = "called" /\ now >= 0 /\ replica <= 65535) =>
        IF ~IsAscii(onion_address) THEN descriptor = Raise("ValueError")
        ELSE IF ~WellFormedB32(onion_address) THEN descriptor = BinasciiError
        ELSE /\ decoded.kind = "ok"
             /\ Len(decoded.value) = (5 * DataChars(onion_address)) \div 8
             /\ IF Len(decoded.value) = 0 THEN descriptor = Raise("struct.error")
                ELSE IF PackedPeriod < 0 \/ PackedPeriod \div 65536 > 65535
                THEN descriptor = Raise("struct.error")
                ELSE IF replica < 0 \/ replica \in 256..4095
                THEN descriptor = BinasciiError
                ELSE descriptor.kind = "ok"

C5_Witness ==
    /\ pc = "called"
    /\ decoded.kind = "ok"
    /\ Len(decoded.value) = 5
    /\ replica = 255
    /\ b32_args.deviation = -1
    /\ now > 0
    /\ descriptor.kind = "ok"

(***************************************************************************)
(* calc_secret_id_part on its own.                                         *)
(***************************************************************************)
HalfSamples == {0, 1, 255, 256, 32768, 65535}
CookieSamples ==
    {NoCookie, Cookie(<<>>), Cookie(Repeat(0, 16)), Cookie([i \in 1..16 |-> 160 + i])}

InitSid ==
    /\ pc = "start"
    /\ sid_args \in [time_period : HalfSamples \X HalfSamples,
                     descriptor_cookie : CookieSamples,
                     replica : 0..MaxReplica]
    /\ sid_result = Idle
    /\ TimeIdle /\ AddrIdle /\ PadIdle /\ KeyIdle

CalcSecretIdPart ==
    /\ pc = "start"
    /\ sid_result' = calc_secret_id_part(sid_args.time_period,
                                         sid_args.descriptor_cookie, sid_args.replica)
    /\ pc' = "called"
    /\ UNCHANGED <<timeVars, addrVars, sid_args, padVars, keyVars>>

NextSid == CalcSecretIdPart

SpecSid == InitSid /\ [][NextSid]_vars

SidCookie == sid_args.descriptor_cookie
SidCookieLen == IF SidCookie.present THEN Len(SidCookie.bytes) ELSE 0

\* C8: for a time period in 0..2^32-1, a replica in 0..255 and a cookie that
\* is absent or 16 bytes, SHA-1 is fed exactly the time period as 4 bytes
\* big-endian, the cookie verbatim if present, and the replica as one byte:
\* 5 bytes without a cookie, 21 with one.
C8_SecretIdPreimage ==
    (/\ pc = "called"
     /\ sid_args.replica \in 0..255
     /\ (~SidCookie.present \/ Len(SidCookie.bytes) = 16)) =>
        /\ sid_result.kind = "ok"
        /\ LET fed == sid_result.value.sha1
           IN  /\ Len(fed) = IF SidCookie.present THEN 21 ELSE 5
               /\ \A k \in 1..Len(fed) : fed[k] \in Bytes
               /\ 256 * fed[1] + fed[2] = sid_args.time_period[1]
               /\ 256 * fed[3] + fed[4] = sid_args.time_period[2]
               /\ SubSeq(fed, 5, 4 + SidCookieLen) = SidCookie.bytes
               /\ fed[5 + SidCookieLen] = sid_args.replica

C8_Witness ==
    /\ pc = "called"
    /\ sid_args.time_period = <<0, 1>>
    /\ sid_args.descriptor_cookie = NoCookie
    /\ sid_args.replica = 0
    /\ sid_result = Ok(SHA1(<<0, 0, 0, 1, 0>>))

(***************************************************************************)
(* add_pkcs1_padding on its own.                                           *)
(***************************************************************************)
MessageSamples ==
    {[i \in 1..n |-> (first + i - 1) % 256] : n \in 0..MaxMsgLen, first \in {0, 97, 255}}

InitPad ==
    /\ pc = "start"
    /\ message \in MessageSamples
    /\ padded = Idle
    /\ TimeIdle /\ AddrIdle /\ SidIdle /\ KeyIdle

AddPkcs1Padding ==
    /\ pc = "start"
    /\ padded' = add_pkcs1_padding(message)
    /\ pc' = "called"
    /\ UNCHANGED <<timeVars, addrVars, sidVars, message, keyVars>>

NextPad == AddPkcs1Padding

SpecPad == InitPad /\ [][NextPad]_vars

\* C4: add_pkcs1_padding returns a block exactly when the message has at most
\* 125 bytes; the block is then 128 bytes: 00 01, FF (125 - len) times, 00,
\* the message.  A longer message fails and gives no block.
C4_PaddingContract ==
    pc = "called" =>
        LET n == Len(message)
        IN  IF n <= 125
            THEN /\ padded.kind = "ok"
                 /\ Len(padded.value) = 128
                 /\ padded.value[1] = 0
                 /\ padded.value[2] = 1
                 /\ \A k \in 3..(127 - n) : padded.value[k] = 255
                 /\ padded.value[128 - n] = 0
                 /\ SubSeq(padded.value, 129 - n, 128) = message
            ELSE padded = Raise("AssertionError")

C4_Witness ==
    /\ pc = "called"
    /\ Len(message) = 126
    /\ padded = Raise("AssertionError")

(***************************************************************************)
(* key_decrypt_prompt (util.py 124-157).  The steps are the points where   *)
(* the function waits on the outside: reading the file, the passphrase     *)
(* prompt, the library's importKey.                                        *)
(***************************************************************************)
\* b"== ed25519v1-secret: type0 ==" (29 bytes)
hsv3_tag == <<61, 61, 32, 101, 100, 50, 53, 53, 49, 57, 118, 49, 45, 115, 101, 99,
              114, 101, 116, 58, 32, 116, 121, 112, 101, 48, 32, 61, 61>>
\* "Proc-Type: 4,ENCRYPTED"
EncryptedMarker == <<80, 114, 111, 99, 45, 84, 121, 112, 101, 58, 32, 52, 44, 69, 78,
                     67, 82, 89, 80, 84, 69, 68>>

\* bytes.startswith
StartsWith(s, prefix) == Len(s) >= Len(prefix) /\ Take(s, Len(prefix)) = prefix
\* the "in" test on text
Contains(s, sub) ==
    \E i \in 1..(Len(s) - Len(sub) + 1) : SubSeq(s, i, i + Len(sub) - 1) = sub
\* Python's s[a:b] for 0 <= a <= b: clipped to the length.
Slice(s, a, b) ==
    LET hi == IF b < Len(s) THEN b ELSE Len(s)
    IN  IF a >= hi THEN <<>> ELSE SubSeq(s, a + 1, hi)

\* Mutant: the scalar read right behind the 29-byte tag.
Ed25519SecretBytes_after_tag(pem) == Slice(pem, Len(hsv3_tag), Len(hsv3_tag) + 32)

\* pem_key[32:64]
Ed25519SecretBytes(pem) == Slice(pem, 32, 64)

\* bytes.decode('utf-8'), strict.  The length of the sequence a lead byte
\* opens (0: no lead byte), and the range its second byte must be in: no
\* overlong form, no surrogate, nothing above U+10FFFF.
Utf8SeqLen(b) ==
    IF b < 128 THEN 1
    ELSE IF b \in 194..223 THEN 2
    ELSE IF b \in 224..239 THEN 3
    ELSE IF b \in 240..244 THEN 4
    ELSE 0
Utf8SecondLow(b) == IF b = 224 THEN 160 ELSE IF b = 240 THEN 144 ELSE 128
Utf8SecondHigh(b) == IF b = 237 THEN 159 ELSE IF b = 244 THEN 143 ELSE 191

Utf8Continuation(b) == b \in 128..191

\* The sequence opened at position k is whole and well-formed, and the next
\* one opens right behind it.
Utf8SequenceAt(bytes, k) ==
    LET lead == bytes[k]
        n == Utf8SeqLen(lead)
    IN  IF n = 0 \/ k + n - 1 > Len(bytes) THEN FALSE
        ELSE /\ n >= 2 => bytes[k + 1] \in Utf8SecondLow(lead)..Utf8SecondHigh(lead)
             /\ \A j \in (k + 2)..(k + n - 1) : Utf8Continuation(bytes[j])
             /\ k + n <= Len(bytes) => ~Utf8Continuation(bytes[k + n])

\* pem_key.decode('utf-8') returns; otherwise it raises UnicodeDecodeError.
\* The decoder reads sequence after sequence from the first byte on: every
\* byte that is no continuation byte opens a sequence, and the first byte does.
Utf8Decodes(bytes) ==
    /\ Len(bytes) > 0 => ~Utf8Continuation(bytes[1])
    /\ \A k \in 1..Len(bytes) :
          ~Utf8Continuation(bytes[k]) => Utf8SequenceAt(bytes, k)

\* Mutant: one iteration too many, range(0, retries + 1).
LoopContinues_inclusive(i, r) == i <= r

\* "for retries in range(0, retries)": the range is fixed on entry; the loop
\* variable i runs over 0..r-1.
LoopContinues(i, r) == i < r

\* Mutant: "or" for "and".
KeyAccepted_or(key) == key.has_private \/ key.size \in {1023, 1024}

\* rsa_key.has_private() and rsa_key.size() in (1023, 1024)
KeyAccepted(key) == key.has_private /\ key.size \in {1023, 1024}

KeyFormatError == Raise("ValueError: The specified key was not a 1024 bit private key.")
DecryptionError == Raise("ValueError: Could not import RSA key.")

\* What RSA.importKey can give: ValueError (not decoded), or a key object.
KeySizes == {512, 1022, 1023, 1024, 1025, 2048}
RsaKeys == [type : {"RSA"}, has_private : BOOLEAN, size : KeySizes]

\* Containers read from key_file.
PemHeader == <<45, 45, 45, 45, 45, 66, 69, 71, 73, 78, 32, 82, 83, 65, 32, 80, 82, 73,
               86, 65, 84, 69, 32, 75, 69, 89, 45, 45, 45, 45, 45, 10>>
PemBody == <<77, 73, 73, 67, 88, 65, 73, 66, 65, 65, 75, 66, 103, 81, 61, 61, 10>>
TagPads == {<<0, 0, 0>>, <<88, 89, 90>>, <<10, 10, 10>>}
Containers ==
    \* the tag, three more bytes, the scalar and the rest of an expanded key
    {hsv3_tag \o pad \o Scalar \o Scalar : pad \in TagPads}
    \* the same cut short: no, or too few, bytes at 32..63
    \cup {hsv3_tag, hsv3_tag \o <<0, 0, 0>> \o Take(Scalar, 10)}
    \* the tag damaged in one byte, cut by one byte, or not at the start; what
    \* follows is text (TextScalar) or is not (Scalar: a stray byte 80)
    \cup {ReplaceAt(hsv3_tag, i, 45) \o <<0, 0, 0>> \o s :
             i \in {1, 15, 29}, s \in {Scalar, TextScalar}}
    \cup {Take(hsv3_tag, 28)}
    \cup {<<10>> \o hsv3_tag \o <<0, 0>> \o s : s \in {Scalar, TextScalar}}
    \* PEM text, encrypted and plain, plain with a two-byte character
    \cup {PemHeader \o EncryptedMarker \o <<10, 10>> \o PemBody, PemHeader \o PemBody}
    \cup {PemHeader \o <<195, 169, 10>> \o PemBody}
    \* bytes that are no text: FF FE, an overlong form, a cut sequence
    \cup {<<255, 254>> \o PemBody, PemHeader \o <<192, 128>> \o PemBody,
          PemHeader \o EncryptedMarker \o <<10, 226, 130>>}
Passphrases == {"hunter2", "letmein"}

InitKey ==
    /\ pc = "open"
    /\ pem_key \in Containers
    /\ retries \in (-1)..MaxRetries
    /\ attempt = 0
    /\ key_passphrase = "None"
    /\ prompts = 0
    /\ imports = 0
    /\ last_import = Idle
    /\ route = "none"
    /\ outcome = Idle
    /\ TimeIdle /\ AddrIdle /\ SidIdle /\ PadIdle

KeyFrame == UNCHANGED <<timeVars, addrVars, sidVars, padVars, pem_key, retries>>

\* lines 131-135: the tag is found, the key is built and returned.
ReadEd25519 ==
    /\ pc = "open"
    /\ StartsWith(pem_key, hsv3_tag)
    /\ route' = "ed25519"
    /\ outcome' = from_private_bytes(Ed25519SecretBytes(pem_key))
    /\ pc' = "done"
    /\ UNCHANGED <<attempt, key_passphrase, prompts, imports, last_import>>
    /\ KeyFrame

\* line 137: no tag; the bytes are decoded as text, and the loop is entered.
ReadPem ==
    /\ pc = "open"
    /\ ~StartsWith(pem_key, hsv3_tag)
    /\ route' = "rsa"
    /\ IF Utf8Decodes(pem_key)
       THEN pc' = "loop" /\ outcome' = outcome
       ELSE pc' = "done" /\ outcome' = Raise("UnicodeDecodeError")
    /\ UNCHANGED <<attempt, key_passphrase, prompts, imports, last_import>>
    /\ KeyFrame

\* lines 138-141: the next iteration begins; an encrypted key is prompted for.
Prompt ==
    /\ pc = "loop"
    /\ LoopContinues(attempt, retries)
    /\ Contains(pem_key, EncryptedMarker)
    /\ \E entered \in Passphrases : key_passphrase' = entered
    /\ prompts' = prompts + 1
    /\ pc' = "import"
    /\ UNCHANGED <<attempt, imports, last_import, route, outcome>>
    /\ KeyFrame

\* lines 138-139: the next iteration begins; a plain key is not prompted for.
NoPrompt ==
    /\ pc = "loop"
    /\ LoopContinues(attempt, retries)
    /\ ~Contains(pem_key, EncryptedMarker)
    /\ pc' = "import"
    /\ UNCHANGED <<attempt, key_passphrase, prompts, imports, last_import, route, outcome>>
    /\ KeyFrame

\* lines 142-147: importKey raises ValueError; on to the next iteration.
ImportFails ==
    /\ pc = "import"
    /\ imports' = imports + 1
    /\ last_import' = Raise("ValueError")
    /\ attempt' = attempt + 1
    /\ pc' = "loop"
    /\ UNCHANGED <<key_passphrase, prompts, route, outcome>>
    /\ KeyFrame

\* lines 142-154: importKey returns a key; it is returned or refused.
ImportDecodes ==
    /\ pc = "import"
    /\ imports' = imports + 1
    /\ \E key \in RsaKeys :
          /\ last_import' = Ok(key)
          /\ outcome' = IF KeyAccepted(key) THEN Ok(key) ELSE KeyFormatError
    /\ pc' = "done"
    /\ UNCHANGED <<attempt, key_passphrase, prompts, route>>
    /\ KeyFrame

\* line 157: the range is used up.
RetriesExhausted ==
    /\ pc = "loop"
    /\ ~LoopContinues(attempt, retries)
    /\ outcome' = DecryptionError
    /\ pc' = "done"
    /\ UNCHANGED <<attempt, key_passphrase, prompts, imports, last_import, route>>
    /\ KeyFrame

NextKey ==
    \/ ReadEd25519
    \/ ReadPem
    \/ Prompt
    \/ NoPrompt
    \/ ImportFails
    \/ ImportDecodes
    \/ RetriesExhausted

\* Every call the function waits on returns: the loop is not held up forever.
SpecKey == InitKey /\ [][NextKey]_vars /\ WF_vars(NextKey)

\* pem_key.decode('utf-8') on line 137 has returned: the container is text.
DecodedAsText == route = "rsa" /\ outcome # Raise("UnicodeDecodeError")

\* The RSA route on a text container that carries the encrypted marker.
EncryptedRsaRun ==
    /\ DecodedAsText
    /\ Contains(pem_key, EncryptedMarker)
    /\ retries >= 0

C6_Budget ==
    EncryptedRsaRun =>
        /\ imports <= retries
        /\ prompts = imports + (IF pc = "import" THEN 1 ELSE 0)
        /\ (pc = "done" /\ last_import.kind # "ok") =>
              /\ imports = retries
              /\ prompts = retries
              /\ outcome = DecryptionError

\* C6: on the RSA route with retry count r >= 0 and an encrypted container,
\* every run makes at most r import attempts, each preceded by one prompt; if
\* every attempt fails to decode there are exactly r attempts and r prompts
\* and the call fails with DecryptionError; and every run terminates.
C6_RetriesBoundedAndTerminates ==
    /\ []C6_Budget
    /\ <>(pc = "done")

C6_Witness ==
    /\ pc = "done"
    /\ EncryptedRsaRun
    /\ retries = 3
    /\ imports = 3
    /\ prompts = 3
    /\ outcome = DecryptionError

\* C7: a key returned on the RSA route is a private RSA key of size 1023 or
\* 1024; an import that decodes any other key ends the call at once with
\* KeyFormatError, which is not the DecryptionError of exhausted retries: that
\* import was the only one of its iteration and nothing further is enabled.
C7_OnlyPrivate1024Returned ==
    route = "rsa" =>
        /\ (pc = "done" /\ outcome.kind = "ok") =>
              /\ outcome.value.type = "RSA"
              /\ outcome.value.has_private
              /\ outcome.value.size \in {1023, 1024}
        /\ (last_import.kind = "ok"
            /\ ~(last_import.value.has_private /\ last_import.value.size \in {1023, 1024})) =>
              /\ pc = "done"
              /\ outcome = KeyFormatError
              /\ outcome # DecryptionError
              /\ imports = attempt + 1
              /\ prompts <= imports
              /\ ~ENABLED NextKey

C7_Witness ==
    /\ pc = "done"
    /\ route = "rsa"
    /\ outcome = KeyFormatError
    /\ last_import.kind = "ok"
    /\ last_import.value.has_private
    /\ last_import.value.size = 2048
    /\ attempt + 1 < retries

\* The 32-byte header of a Tor ed25519 secret key file: the tag, NUL-filled.
Marker32 == hsv3_tag \o <<0, 0, 0>>

\* C9 (as stated): the Ed25519 route is taken exactly when the first 32 bytes
\* of the container are the marker; on it the key built from bytes 32..63 is
\* returned with no prompt and no import attempt, for every retry count.
C9_RouteIffMarker32 ==
    pc # "open" =>
        /\ (route = "ed25519") <=> (Len(pem_key) >= 32 /\ Take(pem_key, 32) = Marker32)
        /\ route = "ed25519" =>
              /\ outcome = Ok([type |-> "Ed25519", secret |-> SubSeq(pem_key, 33, 64)])
              /\ prompts = 0
              /\ imports = 0

\* C9 (amended): the Ed25519 route is taken exactly when the container starts
\* with the 29-byte tag, whatever bytes 29..31 are; on it there is no prompt and
\* no import attempt for every retry count, and the key built from bytes 32..63
\* is returned when the container has them all (64 bytes or more); a shorter
\* container fails in the key constructor.
C9_RouteIffTag29 ==
    pc # "open" =>
        /\ (route = "ed25519") <=>
              (Len(pem_key) >= 29 /\ \A k \in 1..29 : pem_key[k] = hsv3_tag[k])
        /\ route = "ed25519" =>
              /\ pc = "done"
              /\ prompts = 0
              /\ imports = 0
              /\ Len(pem_key) >= 64 =>
                    outcome = Ok([type |-> "Ed25519", secret |-> SubSeq(pem_key, 33, 64)])
              /\ Len(pem_key) < 64 => outcome.kind = "error"

C9_Witness ==
    /\ pc = "done"
    /\ route = "ed25519"
    /\ Len(pem_key) >= 64
    /\ pem_key[30] = 88
    /\ retries = 0
    /\ prompts = 0
    /\ imports = 0
    /\ outcome.kind = "ok"
    /\ outcome.value.secret = Scalar
====
